---- MODULE Spec2Model ----
(***************************************************************************)
(* Model of the Bend command-line driver (src/src/main.rs): the option     *)
(* resolver compile_opts_from_cli, the severity resolver                   *)
(* set_warning_cfg_from_cli, and the mode dispatch of execute_cli_mode     *)
(* together with main's rendering of the outcome.                          *)
(*                                                                         *)
(* Three specifications share the variables:                               *)
(*   SpecOpts  - the fold of compile_opts_from_cli over a flag list;       *)
(*   SpecWarn  - the replay loop of set_warning_cfg_from_cli;              *)
(*   Spec      - one invocation of main / execute_cli_mode.                *)
(***************************************************************************)
EXTENDS Integers, Sequences, FiniteSets, TLC

VARIABLES
  args,        \* compile_opts_from_cli: the flag list (&Vec<OptArgs>)
  argi,        \* compile_opts_from_cli: index of the next flag of the for loop
  opts,        \* compile_opts_from_cli: the CompileOpts record being folded
  optPc        \* compile_opts_from_cli: "idle" | "loop" | "done"

optVars == <<args, argi, opts, optPc>>

VARIABLES
  warn_cli,    \* the -W/-D/-A occurrences of the command line, in order
  cfg,         \* set_warning_cfg_from_cli: the DiagnosticsConfig being built
  idi,         \* set_warning_cfg_from_cli: index of the next id of warn_opts_ids
  allows,      \* set_warning_cfg_from_cli: what is left of warn_opts.allows.into_iter()
  warns,       \* set_warning_cfg_from_cli: what is left of warn_opts.warns.into_iter()
  denies,      \* set_warning_cfg_from_cli: what is left of warn_opts.denies.into_iter()
  warnPc       \* set_warning_cfg_from_cli: "idle" | "loop" | "done"

warnVars == <<warn_cli, cfg, idi, allows, warns, denies, warnPc>>

VARIABLES
  cli,             \* per invocation: the parsed Cli (mode, verbose, pretty, print_stats, warn_opts)
  source,          \* per invocation: the input file as the library will see it
  file,            \* the transient artifact ".out.hvm" shared by all invocations
  pc,              \* per invocation: position in main / execute_cli_mode
  diagnostics_cfg, \* per invocation: the resolved DiagnosticsConfig
  compile_res,     \* per invocation: the diagnostics of the Ok result of compile_book
  output,          \* per invocation: exit status of the external tool, -1 before it returned
  log,             \* per invocation: the writes to stdout/stderr, file and process operations, in order
                   \* (channels "out", "err", "fs", "proc", and "cfg" for the resolver's branch)
  ret,             \* per invocation: the Result returned by execute_cli_mode
  exit_code        \* per invocation: the ExitCode returned by main

cliVars ==
  <<cli, source, file, pc, diagnostics_cfg, compile_res, output, log, ret, exit_code>>

vars == <<optVars, warnVars, cliVars>>

(***************************************************************************)
(* Bounds                                                                  *)
(***************************************************************************)
MaxOptArgs == 2
MaxWarnTokens == 2
MaxCliWarnTokens == 1
MaxFindings == 1

(***************************************************************************)
(* Helpers                                                                 *)
(***************************************************************************)
SeqsUpTo(S, n) == UNION {[1..k -> S] : k \in 0..n}

(***************************************************************************)
(* OptionSet resolver                                                      *)
(***************************************************************************)
OptArgs ==
  {"All", "NoAll", "Eta", "NoEta", "Prune", "NoPrune", "LinearizeMatches",
   "LinearizeMatchesAlt", "NoLinearizeMatches", "FloatCombinators",
   "NoFloatCombinators", "Merge", "NoMerge", "Inline", "NoInline",
   "CheckNetSize", "NoCheckNetSize", "AdtScott", "AdtNumScott"}

OptLevel == {"Disabled", "Enabled", "Alt"}

AdtEncoding == {"Scott", "NumScott"}

\* CompileOpts::default() is library code; the driver only relies on every
\* field having some default, so the fold is started from either extreme.
CompileOpts_default ==
  { [eta |-> b, prune |-> b, float_combinators |-> b, merge |-> b,
     inline |-> b, check_net_size |-> b,
     linearize_matches |-> IF b THEN "Enabled" ELSE "Disabled",
     adt_encoding |-> IF b THEN "Scott" ELSE "NumScott"] : b \in BOOLEAN }

\* CompileOpts::set_all: every field that has an enable/disable toggle is
\* enabled, the ADT encoding is kept.
set_all(o) ==
  [o EXCEPT !.eta = TRUE, !.prune = TRUE, !.float_combinators = TRUE,
            !.merge = TRUE, !.inline = TRUE, !.check_net_size = TRUE,
            !.linearize_matches = "Enabled"]

\* CompileOpts::set_no_all: the same fields disabled.
set_no_all(o) ==
  [o EXCEPT !.eta = FALSE, !.prune = FALSE, !.float_combinators = FALSE,
            !.merge = FALSE, !.inline = FALSE, !.check_net_size = FALSE,
            !.linearize_matches = "Disabled"]

\* ApplyOpt with the NoX arms writing the enabling value (a copy/paste slip).
ApplyOptNoArmsEnable(o, arg) ==
  CASE arg = "All"                 -> set_all(o)
    [] arg = "NoAll"               -> set_no_all(o)
    [] arg = "Eta"                 -> [o EXCEPT !.eta = TRUE]
    [] arg = "NoEta"               -> [o EXCEPT !.eta = TRUE]
    [] arg = "Prune"               -> [o EXCEPT !.prune = TRUE]
    [] arg = "NoPrune"             -> [o EXCEPT !.prune = TRUE]
    [] arg = "FloatCombinators"    -> [o EXCEPT !.float_combinators = TRUE]
    [] arg = "NoFloatCombinators"  -> [o EXCEPT !.float_combinators = TRUE]
    [] arg = "Merge"               -> [o EXCEPT !.merge = TRUE]
    [] arg = "NoMerge"             -> [o EXCEPT !.merge = TRUE]
    [] arg = "Inline"              -> [o EXCEPT !.inline = TRUE]
    [] arg = "NoInline"            -> [o EXCEPT !.inline = TRUE]
    [] arg = "CheckNetSize"        -> [o EXCEPT !.check_net_size = TRUE]
    [] arg = "NoCheckNetSize"      -> [o EXCEPT !.check_net_size = TRUE]
    [] arg = "LinearizeMatches"    -> [o EXCEPT !.linearize_matches = "Enabled"]
    [] arg = "LinearizeMatchesAlt" -> [o EXCEPT !.linearize_matches = "Alt"]
    [] arg = "NoLinearizeMatches"  -> [o EXCEPT !.linearize_matches = "Enabled"]
    [] arg = "AdtScott"            -> [o EXCEPT !.adt_encoding = "Scott"]
    [] arg = "AdtNumScott"         -> [o EXCEPT !.adt_encoding = "NumScott"]

\* The match of the for loop's body: one flag applied to the record.
ApplyOpt(o, arg) ==
  CASE arg = "All"                 -> set_all(o)
    [] arg = "NoAll"               -> set_no_all(o)
    [] arg = "Eta"                 -> [o EXCEPT !.eta = TRUE]
    [] arg = "NoEta"               -> [o EXCEPT !.eta = FALSE]
    [] arg = "Prune"               -> [o EXCEPT !.prune = TRUE]
    [] arg = "NoPrune"             -> [o EXCEPT !.prune = FALSE]
    [] arg = "FloatCombinators"    -> [o EXCEPT !.float_combinators = TRUE]
    [] arg = "NoFloatCombinators"  -> [o EXCEPT !.float_combinators = FALSE]
    [] arg = "Merge"               -> [o EXCEPT !.merge = TRUE]
    [] arg = "NoMerge"             -> [o EXCEPT !.merge = FALSE]
    [] arg = "Inline"              -> [o EXCEPT !.inline = TRUE]
    [] arg = "NoInline"            -> [o EXCEPT !.inline = FALSE]
    [] arg = "CheckNetSize"        -> [o EXCEPT !.check_net_size = TRUE]
    [] arg = "NoCheckNetSize"      -> [o EXCEPT !.check_net_size = FALSE]
    [] arg = "LinearizeMatches"    -> [o EXCEPT !.linearize_matches = "Enabled"]
    [] arg = "LinearizeMatchesAlt" -> [o EXCEPT !.linearize_matches = "Alt"]
    [] arg = "NoLinearizeMatches"  -> [o EXCEPT !.linearize_matches = "Disabled"]
    [] arg = "AdtScott"            -> [o EXCEPT !.adt_encoding = "Scott"]
    [] arg = "AdtNumScott"         -> [o EXCEPT !.adt_encoding = "NumScott"]

OptsIdle ==
  /\ args = <<>>
  /\ argi = 1
  /\ opts = CHOOSE o \in CompileOpts_default : o.eta
  /\ optPc = "idle"

(***************************************************************************)
(* Severity resolver                                                       *)
(***************************************************************************)
WarningArgs ==
  {"All", "IrrefutableMatch", "RedundantMatch", "UnreachableMatch",
   "UnusedDefinition", "RepeatedBind", "RecursionCycle"}

Severity == {"Allow", "Warning", "Error"}

\* The six severity fields of DiagnosticsConfig that `set` assigns.
Categories ==
  {"irrefutable_match", "redundant_match", "unreachable_match",
   "unused_definition", "repeated_bind", "recursion_cycle"}

\* DiagnosticsConfig::new(severity, verbose): every category at `severity`.
DiagnosticsConfig_new(severity, verbose) ==
  [irrefutable_match |-> severity, redundant_match |-> severity,
   unreachable_match |-> severity, unused_definition |-> severity,
   repeated_bind |-> severity, recursion_cycle |-> severity,
   verbose |-> verbose]

\* DiagnosticsConfig::default() is library code whose values the driver does
\* not depend on: any of the uniform configurations may be the default.
DiagnosticsConfig_default ==
  {DiagnosticsConfig_new(s, FALSE) : s \in Severity}

\* The flags of the CliWarnOpts group: -W/--warn, -D/--deny, -A/--allow.
WarnFlags == {"warns", "denies", "allows"}

\* One occurrence of a flag carries one or more categories: the value is
\* split at value_delimiter = ' ' (action Append).
Occurrences(n) ==
  {[flag |-> f, vals |-> v] : f \in WarnFlags, v \in [1..n -> WarningArgs]}

\* The command lines that carry exactly n category values.
RECURSIVE WarnClis(_)
WarnClis(n) ==
  IF n = 0 THEN {<<>>}
  ELSE UNION {{<<o>> \o rest : o \in Occurrences(m), rest \in WarnClis(n - m)} :
              m \in 1..n}

\* warn_opts.warns / .denies / .allows: the values given to one flag, appended
\* across its occurrences.
RECURSIVE FlagVals(_, _)
FlagVals(w, f) ==
  IF w = <<>> THEN <<>>
  ELSE (IF Head(w).flag = f THEN Head(w).vals ELSE <<>>)
         \o FlagVals(Tail(w), f)

\* arg_matches.get_many::<clap::Id>("CliWarnOpts"): the argument layer records
\* the flag's id in the group once per occurrence of the flag.
WarnOptsIds(w) == [i \in 1..Len(w) |-> w[i].flag]

\* `set` with the All arm leaving out the last field.
setAllSkipsRecursionCycle(c, severity, cli_val) ==
  CASE cli_val = "All" ->
         [c EXCEPT !.irrefutable_match = severity, !.redundant_match = severity,
                   !.unreachable_match = severity, !.unused_definition = severity,
                   !.repeated_bind = severity]
    [] cli_val = "IrrefutableMatch" -> [c EXCEPT !.irrefutable_match = severity]
    [] cli_val = "RedundantMatch"   -> [c EXCEPT !.redundant_match = severity]
    [] cli_val = "UnreachableMatch" -> [c EXCEPT !.unreachable_match = severity]
    [] cli_val = "UnusedDefinition" -> [c EXCEPT !.unused_definition = severity]
    [] cli_val = "RepeatedBind"     -> [c EXCEPT !.repeated_bind = severity]
    [] cli_val = "RecursionCycle"   -> [c EXCEPT !.recursion_cycle = severity]

\* fn set(cfg, severity, cli_val)
set(c, severity, cli_val) ==
  CASE cli_val = "All" ->
         [c EXCEPT !.irrefutable_match = severity, !.redundant_match = severity,
                   !.unreachable_match = severity, !.unused_definition = severity,
                   !.repeated_bind = severity, !.recursion_cycle = severity]
    [] cli_val = "IrrefutableMatch" -> [c EXCEPT !.irrefutable_match = severity]
    [] cli_val = "RedundantMatch"   -> [c EXCEPT !.redundant_match = severity]
    [] cli_val = "UnreachableMatch" -> [c EXCEPT !.unreachable_match = severity]
    [] cli_val = "UnusedDefinition" -> [c EXCEPT !.unused_definition = severity]
    [] cli_val = "RepeatedBind"     -> [c EXCEPT !.repeated_bind = severity]
    [] cli_val = "RecursionCycle"   -> [c EXCEPT !.recursion_cycle = severity]

\* The whole of set_warning_cfg_from_cli: the ids are replayed in order, each
\* popping the next value of its own flag's queue.
RECURSIVE Replay(_, _, _, _, _)
Replay(c, ids, al, wa, de) ==
  IF ids = <<>> THEN c
  ELSE CASE Head(ids) = "allows" ->
              Replay(set(c, "Allow", Head(al)), Tail(ids), Tail(al), wa, de)
         [] Head(ids) = "denies" ->
              Replay(set(c, "Error", Head(de)), Tail(ids), al, wa, Tail(de))
         [] Head(ids) = "warns" ->
              Replay(set(c, "Warning", Head(wa)), Tail(ids), al, Tail(wa), de)

set_warning_cfg_from_cli(c, warn_opts) ==
  Replay(c, WarnOptsIds(warn_opts), FlagVals(warn_opts, "allows"),
         FlagVals(warn_opts, "warns"), FlagVals(warn_opts, "denies"))

(***************************************************************************)
(* The invocation: data                                                    *)
(***************************************************************************)
\* Invocation 1 is the invocation under study; invocation 2 stands for another
\* process sharing the artifact location and is idle in Spec.
Invocations == {1, 2}

Modes == {"Check", "Run", "RunC", "RunCu", "GenHvm", "GenC", "GenCu", "Desugar"}

RunModes == {"Run", "RunC", "RunCu"}

GenToolModes == {"GenC", "GenCu"}

CompileModes == {"GenHvm", "GenC", "GenCu"}

\* struct Cli with the fields of its mode; a flag a mode does not have is FALSE.
CliSet ==
  {c \in [mode : Modes, verbose : BOOLEAN, pretty : BOOLEAN,
          print_stats : BOOLEAN,
          warn_opts : UNION {WarnClis(n) : n \in 0..MaxCliWarnTokens}] :
     /\ c.pretty => c.mode \in RunModes \cup {"Desugar"}
     /\ c.print_stats => c.mode \in RunModes}

CliOff ==
  [mode |-> "Check", verbose |-> FALSE, pretty |-> FALSE, print_stats |-> FALSE,
   warn_opts |-> <<>>]

\* The input file: it does not load, or it loads into a book in which the
\* library's passes find the given categories of findings.
Sources ==
  {[loads |-> FALSE, findings |-> {}]} \cup
  {[loads |-> TRUE, findings |-> F] :
     F \in {G \in SUBSET Categories : Cardinality(G) <= MaxFindings}}

\* The transient artifact: absent, or holding what `owner` wrote (0: left
\* behind by an earlier invocation).
FileAbsent == [exists |-> FALSE, owner |-> 0]

FileOf(p) == [exists |-> TRUE, owner |-> p]

FileTag(f) ==
  IF ~f.exists THEN "absent"
  ELSE CASE f.owner = 0 -> "stale" [] f.owner = 1 -> "inv1" [] f.owner = 2 -> "inv2"

\* Exit statuses of the external tool.
ToolStatuses == {0, 1}

\* Text is a sequence of parts <<kind, detail>>; the empty sequence is the
\* empty string.
Nl == <<"nl", "">>

Lit(str) == <<"lit", str>>

OsError(op) == <<"os_error", op>>

CategoryOrder ==
  <<"irrefutable_match", "redundant_match", "unreachable_match",
    "unused_definition", "repeated_bind", "recursion_cycle">>

\* A Diagnostics value: the reported findings and, for a Diagnostics made
\* from a String, the message.
Diag(F, msg) == [findings |-> F, msg |-> msg]

NoDiag == Diag({}, <<>>)

\* Display of Diagnostics: one part per reported finding, then the message;
\* empty when there is neither.
Display(d) ==
  LET cats == SelectSeq(CategoryOrder, LAMBDA c : c \in d.findings)
  IN  [i \in 1..Len(cats) |-> <<"finding", cats[i]>>] \o d.msg

\* Findings at severity Allow are ignored, the others are reported.
Reported(F, dcfg) == {c \in F : dcfg[c] # "Allow"}

\* Only a finding at severity Error makes a library pass return Err.
Fatal(F, dcfg) == \E c \in F : dcfg[c] = "Error"

\* StatusText without the test of status.success().
StatusTextUnconditional(st) ==
  <<<<"status", IF st = 0 THEN "exit status: 0" ELSE "exit status: 1">>>>

\* status.to_string() when !status.success(), String::new() otherwise
StatusText(st) ==
  IF st # 0 THEN <<<<"status", IF st = 1 THEN "exit status: 1" ELSE "exit status: n">>>>
  ELSE <<>>

Ev(ch, text) == [ch |-> ch, text |-> text]

ResultOk == [ok |-> TRUE, diag |-> NoDiag]

ResultErr(d) == [ok |-> FALSE, diag |-> d]

CliIdle ==
  /\ cli = [p \in Invocations |-> CliOff]
  /\ source = [p \in Invocations |-> [loads |-> FALSE, findings |-> {}]]
  /\ file = FileAbsent
  /\ pc = [p \in Invocations |-> "off"]
  /\ diagnostics_cfg = [p \in Invocations |-> DiagnosticsConfig_new("Allow", FALSE)]
  /\ compile_res = [p \in Invocations |-> NoDiag]
  /\ output = [p \in Invocations |-> -1]
  /\ log = [p \in Invocations |-> <<>>]
  /\ ret = [p \in Invocations |-> ResultOk]
  /\ exit_code = [p \in Invocations |-> "none"]

WarnIdle ==
  /\ warn_cli = <<>>
  /\ cfg = DiagnosticsConfig_new("Allow", FALSE)
  /\ idi = 1
  /\ allows = <<>>
  /\ warns = <<>>
  /\ denies = <<>>
  /\ warnPc = "idle"

\* The caller's starting configuration and the three into_iter() queues.
InitWarn ==
  /\ warn_cli \in UNION {WarnClis(n) : n \in 0..MaxWarnTokens}
  /\ cfg \in DiagnosticsConfig_default
               \cup {DiagnosticsConfig_new("Allow", v) : v \in BOOLEAN}
  /\ idi = 1
  /\ allows = FlagVals(warn_cli, "allows")
  /\ warns = FlagVals(warn_cli, "warns")
  /\ denies = FlagVals(warn_cli, "denies")
  /\ warnPc = "loop"
  /\ OptsIdle
  /\ CliIdle

\* "allows" => set(&mut cfg, Severity::Allow, allows.next().unwrap())
ReplayAllows ==
  /\ warnPc = "loop"
  /\ idi <= Len(warn_cli)
  /\ WarnOptsIds(warn_cli)[idi] = "allows"
  /\ allows # <<>>
  /\ cfg' = set(cfg, "Allow", Head(allows))
  /\ allows' = Tail(allows)
  /\ idi' = idi + 1
  /\ UNCHANGED <<warn_cli, warns, denies, warnPc, optVars, cliVars>>

\* "denies" => set(&mut cfg, Severity::Error, denies.next().unwrap())
ReplayDenies ==
  /\ warnPc = "loop"
  /\ idi <= Len(warn_cli)
  /\ WarnOptsIds(warn_cli)[idi] = "denies"
  /\ denies # <<>>
  /\ cfg' = set(cfg, "Error", Head(denies))
  /\ denies' = Tail(denies)
  /\ idi' = idi + 1
  /\ UNCHANGED <<warn_cli, allows, warns, warnPc, optVars, cliVars>>

\* "warns" => set(&mut cfg, Severity::Warning, warns.next().unwrap())
ReplayWarns ==
  /\ warnPc = "loop"
  /\ idi <= Len(warn_cli)
  /\ WarnOptsIds(warn_cli)[idi] = "warns"
  /\ warns # <<>>
  /\ cfg' = set(cfg, "Warning", Head(warns))
  /\ warns' = Tail(warns)
  /\ idi' = idi + 1
  /\ UNCHANGED <<warn_cli, allows, denies, warnPc, optVars, cliVars>>

\* No id is left (or the group was absent from the matches): cfg is returned.
WarnReturn ==
  /\ warnPc = "loop"
  /\ idi > Len(warn_cli)
  /\ warnPc' = "done"
  /\ UNCHANGED <<warn_cli, cfg, idi, allows, warns, denies, optVars, cliVars>>

NextWarn == ReplayAllows \/ ReplayDenies \/ ReplayWarns \/ WarnReturn

SpecWarn == InitWarn /\ [][NextWarn]_vars

\* let mut opts = CompileOpts::default();
InitOpts ==
  /\ args \in SeqsUpTo(OptArgs, MaxOptArgs)
  /\ argi = 1
  /\ opts \in CompileOpts_default
  /\ optPc = "loop"
  /\ WarnIdle
  /\ CliIdle

\* One iteration of `for arg in args`.
OptLoopStep ==
  /\ optPc = "loop"
  /\ argi <= Len(args)
  /\ opts' = ApplyOpt(opts, args[argi])
  /\ argi' = argi + 1
  /\ UNCHANGED <<args, optPc, warnVars, cliVars>>

\* The loop is exhausted and `opts` is returned.
OptReturn ==
  /\ optPc = "loop"
  /\ argi > Len(args)
  /\ optPc' = "done"
  /\ UNCHANGED <<args, argi, opts, warnVars, cliVars>>

NextOpts == OptLoopStep \/ OptReturn

SpecOpts == InitOpts /\ [][NextOpts]_vars

(***************************************************************************)
(* The invocation: main and execute_cli_mode                               *)
(***************************************************************************)
Emit(p, evs) == log' = [log EXCEPT ![p] = @ \o evs]

Return(p, r) ==
  /\ ret' = [ret EXCEPT ![p] = r]
  /\ pc' = [pc EXCEPT ![p] = "returned"]

\* Cli::parse() has run; the file system may hold an artifact left behind by
\* an earlier invocation.
Init ==
  /\ \E c \in CliSet : cli = [p \in Invocations |-> IF p = 1 THEN c ELSE CliOff]
  /\ \E src \in Sources :
       source = [p \in Invocations |-> IF p = 1 THEN src
                                       ELSE [loads |-> FALSE, findings |-> {}]]
  /\ file \in {FileAbsent, FileOf(0)}
  /\ pc = [p \in Invocations |-> IF p = 1 THEN "start" ELSE "off"]
  /\ diagnostics_cfg = [p \in Invocations |-> DiagnosticsConfig_new("Allow", FALSE)]
  /\ compile_res = [p \in Invocations |-> NoDiag]
  /\ output = [p \in Invocations |-> -1]
  /\ log = [p \in Invocations |-> <<>>]
  /\ ret = [p \in Invocations |-> ResultOk]
  /\ exit_code = [p \in Invocations |-> "none"]
  /\ OptsIdle
  /\ WarnIdle

\* ResolveCfg with the Run arms starting from DiagnosticsConfig::default()
\* like the other arms.
ResolveCfgRunFromDefault(p) ==
  /\ pc[p] = "start"
  /\ \E start \in DiagnosticsConfig_default :
       diagnostics_cfg' =
         [diagnostics_cfg EXCEPT ![p] = set_warning_cfg_from_cli(start, cli[p].warn_opts)]
  /\ cli' = [cli EXCEPT ![p].warn_opts = <<>>]
  /\ Emit(p, <<Ev("cfg", <<<<"warn_opts_ids",
                             IF cli[p].warn_opts = <<>> THEN "none" ELSE "some">>>>)>>)
  /\ pc' = [pc EXCEPT ![p] = IF cli[p].mode \in RunModes THEN "resolved" ELSE "ready"]
  /\ UNCHANGED <<optVars, warnVars, source, file, compile_res, output, ret, exit_code>>

\* The first statement of every arm: set_warning_cfg_from_cli(start, warn_opts),
\* which consumes warn_opts.  The Run arms start from
\* DiagnosticsConfig::new(Severity::Allow, arg_verbose), the others from
\* DiagnosticsConfig::default().  The log keeps which branch of
\* `if let Some(warn_opts_ids)` was taken.
ResolveCfg(p) ==
  /\ pc[p] = "start"
  /\ \E start \in (IF cli[p].mode \in RunModes
                   THEN {DiagnosticsConfig_new("Allow", cli[p].verbose)}
                   ELSE DiagnosticsConfig_default) :
       diagnostics_cfg' =
         [diagnostics_cfg EXCEPT ![p] = set_warning_cfg_from_cli(start, cli[p].warn_opts)]
  /\ cli' = [cli EXCEPT ![p].warn_opts = <<>>]
  /\ Emit(p, <<Ev("cfg", <<<<"warn_opts_ids",
                             IF cli[p].warn_opts = <<>> THEN "none" ELSE "some">>>>)>>)
  /\ pc' = [pc EXCEPT ![p] = IF cli[p].mode \in RunModes THEN "resolved" ELSE "ready"]
  /\ UNCHANGED <<optVars, warnVars, source, file, compile_res, output, ret, exit_code>>

\* compile_opts.check_for_strict(): a library call that may print a notice.
CheckForStrict(p) ==
  /\ pc[p] = "resolved"
  /\ cli[p].mode \in RunModes
  /\ \E notice \in BOOLEAN :
       Emit(p, IF notice THEN <<Ev("out", <<Lit("strict mode notice"), Nl>>)>> ELSE <<>>)
  /\ pc' = [pc EXCEPT ![p] = "ready"]
  /\ UNCHANGED <<optVars, warnVars, cli, source, file, diagnostics_cfg, compile_res, output, ret, exit_code>>

\* load_book: Ok; with verbose the book is printed.
LoadBookOk(p) ==
  /\ pc[p] = "ready"
  /\ source[p].loads
  /\ Emit(p, IF cli[p].verbose THEN <<Ev("out", <<Lit("book"), Nl>>)>> ELSE <<>>)
  /\ pc' = [pc EXCEPT ![p] = "loaded"]
  /\ UNCHANGED <<optVars, warnVars, cli, source, file, diagnostics_cfg, compile_res, output, ret, exit_code>>

\* load_book: load_file_to_book(path)? returns the error.
LoadBookErr(p) ==
  /\ pc[p] = "ready"
  /\ ~source[p].loads
  /\ Return(p, ResultErr(Diag({}, <<Lit("load error")>>)))
  /\ UNCHANGED <<optVars, warnVars, cli, source, file, diagnostics_cfg, compile_res, output, log, exit_code>>

\* Mode::Check: check_book(..)? returns Err.
CheckBookErr(p) ==
  /\ pc[p] = "loaded"
  /\ cli[p].mode = "Check"
  /\ Fatal(source[p].findings, diagnostics_cfg[p])
  /\ Return(p, ResultErr(Diag(Reported(source[p].findings, diagnostics_cfg[p]), <<>>)))
  /\ UNCHANGED <<optVars, warnVars, cli, source, file, diagnostics_cfg, compile_res, output, log, exit_code>>

\* Mode::Check: check_book is Ok and eprintln!("{}", diagnostics).
CheckBookOk(p) ==
  /\ pc[p] = "loaded"
  /\ cli[p].mode = "Check"
  /\ ~Fatal(source[p].findings, diagnostics_cfg[p])
  /\ Emit(p, <<Ev("err",
                  Display(Diag(Reported(source[p].findings, diagnostics_cfg[p]), <<>>))
                    \o <<Nl>>)>>)
  /\ Return(p, ResultOk)
  /\ UNCHANGED <<optVars, warnVars, cli, source, file, diagnostics_cfg, compile_res, output, exit_code>>

\* CompileBookErr without the `?`: the fatal result is taken as the compiled book.
CompileBookErrContinues(p) ==
  /\ pc[p] = "loaded"
  /\ cli[p].mode \in CompileModes
  /\ Fatal(source[p].findings, diagnostics_cfg[p])
  /\ compile_res' =
       [compile_res EXCEPT ![p] = Diag(Reported(source[p].findings, diagnostics_cfg[p]), <<>>)]
  /\ pc' = [pc EXCEPT ![p] = "compiled"]
  /\ UNCHANGED <<optVars, warnVars, cli, source, file, diagnostics_cfg, output, log, ret, exit_code>>

\* Mode::GenHvm / GenC / GenCu: compile_book(..)? returns Err.
CompileBookErr(p) ==
  /\ pc[p] = "loaded"
  /\ cli[p].mode \in CompileModes
  /\ Fatal(source[p].findings, diagnostics_cfg[p])
  /\ Return(p, ResultErr(Diag(Reported(source[p].findings, diagnostics_cfg[p]), <<>>)))
  /\ UNCHANGED <<optVars, warnVars, cli, source, file, diagnostics_cfg, compile_res, output, log, exit_code>>

\* Mode::GenHvm / GenC / GenCu: compile_book is Ok.
CompileBookOk(p) ==
  /\ pc[p] = "loaded"
  /\ cli[p].mode \in CompileModes
  /\ ~Fatal(source[p].findings, diagnostics_cfg[p])
  /\ compile_res' =
       [compile_res EXCEPT ![p] = Diag(Reported(source[p].findings, diagnostics_cfg[p]), <<>>)]
  /\ pc' = [pc EXCEPT ![p] = "compiled"]
  /\ UNCHANGED <<optVars, warnVars, cli, source, file, diagnostics_cfg, output, log, ret, exit_code>>

\* PrintHvm with the two statements in the other order.
PrintHvmPayloadFirst(p) ==
  /\ pc[p] = "compiled"
  /\ cli[p].mode = "GenHvm"
  /\ Emit(p, <<Ev("out", <<Lit("hvm_book"), Nl>>),
               Ev("err", Display(compile_res[p]))>>)
  /\ Return(p, ResultOk)
  /\ UNCHANGED <<optVars, warnVars, cli, source, file, diagnostics_cfg, compile_res, output, exit_code>>

\* Mode::GenHvm: eprint!(diagnostics); println!(hvm book).
PrintHvm(p) ==
  /\ pc[p] = "compiled"
  /\ cli[p].mode = "GenHvm"
  /\ Emit(p, <<Ev("err", Display(compile_res[p])),
               Ev("out", <<Lit("hvm_book"), Nl>>)>>)
  /\ Return(p, ResultOk)
  /\ UNCHANGED <<optVars, warnVars, cli, source, file, diagnostics_cfg, compile_res, output, exit_code>>

\* WriteArtifactOk in every compiling arm, GenHvm included.
WriteArtifactOkAnyMode(p) ==
  /\ pc[p] = "compiled"
  /\ cli[p].mode \in CompileModes
  /\ file' = FileOf(p)
  /\ Emit(p, <<Ev("fs", <<<<"write", "ok">>>>)>>)
  /\ pc' = [pc EXCEPT ![p] = "written"]
  /\ UNCHANGED <<optVars, warnVars, cli, source, diagnostics_cfg, compile_res, output, ret, exit_code>>

\* Mode::GenC / GenCu: std::fs::write(".out.hvm", ..) succeeds.
WriteArtifactOk(p) ==
  /\ pc[p] = "compiled"
  /\ cli[p].mode \in GenToolModes
  /\ file' = FileOf(p)
  /\ Emit(p, <<Ev("fs", <<<<"write", "ok">>>>)>>)
  /\ pc' = [pc EXCEPT ![p] = "written"]
  /\ UNCHANGED <<optVars, warnVars, cli, source, diagnostics_cfg, compile_res, output, ret, exit_code>>

\* WriteArtifactErr without the `?`: the failure is dropped and the arm goes on.
WriteArtifactErrIgnored(p) ==
  /\ pc[p] = "compiled"
  /\ cli[p].mode \in GenToolModes
  /\ file' \in {file, FileOf(p)}
  /\ Emit(p, <<Ev("fs", <<<<"write", "err">>>>)>>)
  /\ pc' = [pc EXCEPT ![p] = "written"]
  /\ UNCHANGED <<optVars, warnVars, cli, source, diagnostics_cfg, compile_res, output, ret, exit_code>>

\* Mode::GenC / GenCu: std::fs::write fails and .map_err(|x| x.to_string())?
\* returns the error text; the file is as it was, or was created and only
\* partly written.
WriteArtifactErr(p) ==
  /\ pc[p] = "compiled"
  /\ cli[p].mode \in GenToolModes
  /\ file' \in {file, FileOf(p)}
  /\ Emit(p, <<Ev("fs", <<<<"write", "err">>>>)>>)
  /\ Return(p, ResultErr(Diag({}, <<OsError("write")>>)))
  /\ UNCHANGED <<optVars, warnVars, cli, source, diagnostics_cfg, compile_res, output, exit_code>>

\* SpawnToolOk that starts the tool only on the artifact this invocation wrote.
SpawnToolOkOwnArtifactOnly(p) ==
  /\ pc[p] = "written"
  /\ file = FileOf(p)
  /\ Emit(p, <<Ev("proc", <<<<"spawn", "ok">>, <<"artifact", FileTag(file)>>>>)>>)
  /\ pc' = [pc EXCEPT ![p] = "tool_running"]
  /\ UNCHANGED <<optVars, warnVars, cli, source, file, diagnostics_cfg, compile_res, output, ret, exit_code>>

\* gen_fn: process.output() spawns the tool, which starts to run.
SpawnToolOk(p) ==
  /\ pc[p] = "written"
  /\ Emit(p, <<Ev("proc", <<<<"spawn", "ok">>, <<"artifact", FileTag(file)>>>>)>>)
  /\ pc' = [pc EXCEPT ![p] = "tool_running"]
  /\ UNCHANGED <<optVars, warnVars, cli, source, file, diagnostics_cfg, compile_res, output, ret, exit_code>>

\* SpawnToolErr with a map_err that drops the io error.
SpawnToolErrDropsCause(p) ==
  /\ pc[p] = "written"
  /\ Emit(p, <<Ev("proc", <<<<"spawn", "err">>>>)>>)
  /\ Return(p, ResultErr(Diag({}, <<Lit("While running hvm: ")>>)))
  /\ UNCHANGED <<optVars, warnVars, cli, source, file, diagnostics_cfg, compile_res, output, exit_code>>

\* gen_fn: process.output() fails to spawn;
\* .map_err(|e| format!("While running hvm: {e}")) and `?` return the error.
SpawnToolErr(p) ==
  /\ pc[p] = "written"
  /\ Emit(p, <<Ev("proc", <<<<"spawn", "err">>>>)>>)
  /\ Return(p, ResultErr(Diag({}, <<Lit("While running hvm: "), OsError("spawn")>>)))
  /\ UNCHANGED <<optVars, warnVars, cli, source, file, diagnostics_cfg, compile_res, output, exit_code>>

\* gen_fn: the tool exits and process.output() returns stdout, stderr, status.
ToolReturns(p) ==
  /\ pc[p] = "tool_running"
  /\ \E st \in ToolStatuses :
       /\ output' = [output EXCEPT ![p] = st]
       /\ Emit(p, <<Ev("proc", <<<<"exit", IF st = 0 THEN "zero" ELSE "nonzero">>>>)>>)
  /\ pc' = [pc EXCEPT ![p] = "tool_done"]
  /\ UNCHANGED <<optVars, warnVars, cli, source, file, diagnostics_cfg, compile_res, ret, exit_code>>

\* RemoveArtifactOk removing nothing.
RemoveArtifactOkKeepsFile(p) ==
  /\ pc[p] = "tool_done"
  /\ file.exists
  /\ file' = file
  /\ Emit(p, <<Ev("fs", <<<<"remove", "ok">>>>)>>)
  /\ pc' = [pc EXCEPT ![p] = "removed"]
  /\ UNCHANGED <<optVars, warnVars, cli, source, diagnostics_cfg, compile_res, output, ret, exit_code>>

\* std::fs::remove_file(".out.hvm") succeeds.
RemoveArtifactOk(p) ==
  /\ pc[p] = "tool_done"
  /\ file.exists
  /\ file' = FileAbsent
  /\ Emit(p, <<Ev("fs", <<<<"remove", "ok">>>>)>>)
  /\ pc' = [pc EXCEPT ![p] = "removed"]
  /\ UNCHANGED <<optVars, warnVars, cli, source, diagnostics_cfg, compile_res, output, ret, exit_code>>

\* RemoveArtifactErr returning the error instead of logging it.
RemoveArtifactErrPropagates(p) ==
  /\ pc[p] = "tool_done"
  /\ Emit(p, <<Ev("fs", <<<<"remove", "err">>>>)>>)
  /\ Return(p, ResultErr(Diag({}, <<Lit("Error removing HVM output file. "),
                                    OsError("remove")>>)))
  /\ UNCHANGED <<optVars, warnVars, cli, source, file, diagnostics_cfg, compile_res, output, exit_code>>

\* std::fs::remove_file fails: eprintln!("Error removing HVM output file. {e}").
RemoveArtifactErr(p) ==
  /\ pc[p] = "tool_done"
  /\ Emit(p, <<Ev("fs", <<<<"remove", "err">>>>),
               Ev("err", <<Lit("Error removing HVM output file. "), OsError("remove"), Nl>>)>>)
  /\ pc' = [pc EXCEPT ![p] = "removed"]
  /\ UNCHANGED <<optVars, warnVars, cli, source, file, diagnostics_cfg, compile_res, output, ret, exit_code>>

\* PrintToolOutput printing the captured stdout before the captured stderr.
PrintToolOutputStdoutFirst(p) ==
  /\ pc[p] = "removed"
  /\ Emit(p, <<Ev("out", <<Lit("tool stdout"), Nl>>),
               Ev("err", <<Lit("tool stderr"), Nl>>),
               Ev("out", StatusText(output[p]) \o <<Nl>>)>>)
  /\ Return(p, ResultOk)
  /\ UNCHANGED <<optVars, warnVars, cli, source, file, diagnostics_cfg, compile_res, output, exit_code>>

\* eprintln!("{err}"); println!("{out}"); println!("{status}");
PrintToolOutput(p) ==
  /\ pc[p] = "removed"
  /\ Emit(p, <<Ev("err", <<Lit("tool stderr"), Nl>>),
               Ev("out", <<Lit("tool stdout"), Nl>>),
               Ev("out", StatusText(output[p]) \o <<Nl>>)>>)
  /\ Return(p, ResultOk)
  /\ UNCHANGED <<optVars, warnVars, cli, source, file, diagnostics_cfg, compile_res, output, exit_code>>

\* Mode::Desugar: desugar_book(..)? returns Err.
DesugarBookErr(p) ==
  /\ pc[p] = "loaded"
  /\ cli[p].mode = "Desugar"
  /\ Fatal(source[p].findings, diagnostics_cfg[p])
  /\ Return(p, ResultErr(Diag(Reported(source[p].findings, diagnostics_cfg[p]), <<>>)))
  /\ UNCHANGED <<optVars, warnVars, cli, source, file, diagnostics_cfg, compile_res, output, log, exit_code>>

\* Mode::Desugar: desugar_book is Ok; eprint!(diagnostics); the book is
\* printed pretty or compact.
DesugarBookOk(p) ==
  /\ pc[p] = "loaded"
  /\ cli[p].mode = "Desugar"
  /\ ~Fatal(source[p].findings, diagnostics_cfg[p])
  /\ Emit(p, <<Ev("err", Display(Diag(Reported(source[p].findings, diagnostics_cfg[p]), <<>>))),
               Ev("out", <<Lit(IF cli[p].pretty THEN "desugared book, pretty"
                                              ELSE "desugared book"), Nl>>)>>)
  /\ Return(p, ResultOk)
  /\ UNCHANGED <<optVars, warnVars, cli, source, file, diagnostics_cfg, compile_res, output, exit_code>>

\* Mode::Run*: run_book(..)? returns the fatal diagnostics of its compilation.
RunBookErr(p) ==
  /\ pc[p] = "loaded"
  /\ cli[p].mode \in RunModes
  /\ Fatal(source[p].findings, diagnostics_cfg[p])
  /\ Return(p, ResultErr(Diag(Reported(source[p].findings, diagnostics_cfg[p]), <<>>)))
  /\ UNCHANGED <<optVars, warnVars, cli, source, file, diagnostics_cfg, compile_res, output, log, exit_code>>

\* Mode::Run*: run_book(..)? fails to spawn the runtime.
RunBookSpawnErr(p) ==
  /\ pc[p] = "loaded"
  /\ cli[p].mode \in RunModes
  /\ ~Fatal(source[p].findings, diagnostics_cfg[p])
  /\ Emit(p, <<Ev("proc", <<<<"spawn", "err">>>>)>>)
  /\ Return(p, ResultErr(Diag({}, <<Lit("run_book: "), OsError("spawn")>>)))
  /\ UNCHANGED <<optVars, warnVars, cli, source, file, diagnostics_cfg, compile_res, output, exit_code>>

\* Mode::Run*: run_book is Ok(None): the `if let Some` body is skipped.
RunBookNone(p) ==
  /\ pc[p] = "loaded"
  /\ cli[p].mode \in RunModes
  /\ ~Fatal(source[p].findings, diagnostics_cfg[p])
  /\ Emit(p, <<Ev("proc", <<<<"spawn", "ok">>>>)>>)
  /\ Return(p, ResultOk)
  /\ UNCHANGED <<optVars, warnVars, cli, source, file, diagnostics_cfg, compile_res, output, exit_code>>

\* RunBookSome printing the stats whatever print_stats is.
RunBookSomeAlwaysStats(p) ==
  /\ pc[p] = "loaded"
  /\ cli[p].mode \in RunModes
  /\ ~Fatal(source[p].findings, diagnostics_cfg[p])
  /\ Emit(p, <<Ev("proc", <<<<"spawn", "ok">>>>),
               Ev("err", Display(Diag(Reported(source[p].findings, diagnostics_cfg[p]), <<>>))),
               Ev("out", <<Lit(IF cli[p].pretty THEN "Result:\n" ELSE "Result: "),
                           <<"term", IF cli[p].pretty THEN "pretty" ELSE "compact">>, Nl>>),
               Ev("out", <<<<"stats", "">>, Nl>>)>>)
  /\ Return(p, ResultOk)
  /\ UNCHANGED <<optVars, warnVars, cli, source, file, diagnostics_cfg, compile_res, output, exit_code>>

\* Mode::Run*: run_book is Ok(Some((term, stats, diags))): eprint!(diags), the
\* result pretty or compact, then the stats if print_stats.
RunBookSome(p) ==
  /\ pc[p] = "loaded"
  /\ cli[p].mode \in RunModes
  /\ ~Fatal(source[p].findings, diagnostics_cfg[p])
  /\ Emit(p, <<Ev("proc", <<<<"spawn", "ok">>>>),
               Ev("err", Display(Diag(Reported(source[p].findings, diagnostics_cfg[p]), <<>>))),
               Ev("out", <<Lit(IF cli[p].pretty THEN "Result:\n" ELSE "Result: "),
                           <<"term", IF cli[p].pretty THEN "pretty" ELSE "compact">>, Nl>>)>>
             \o (IF cli[p].print_stats THEN <<Ev("out", <<<<"stats", "">>, Nl>>)>> ELSE <<>>))
  /\ Return(p, ResultOk)
  /\ UNCHANGED <<optVars, warnVars, cli, source, file, diagnostics_cfg, compile_res, output, exit_code>>

\* MainExit that reports the failure without writing the diagnostics.
MainExitSilent(p) ==
  /\ pc[p] = "returned"
  /\ Emit(p, <<>>)
  /\ exit_code' = [exit_code EXCEPT ![p] = IF ret[p].ok THEN "SUCCESS" ELSE "FAILURE"]
  /\ pc' = [pc EXCEPT ![p] = "exited"]
  /\ UNCHANGED <<optVars, warnVars, cli, source, file, diagnostics_cfg, compile_res, output, ret>>

\* main: an Err is written with eprint!("{diagnostics}") and the exit code is
\* FAILURE; otherwise SUCCESS.
MainExit(p) ==
  /\ pc[p] = "returned"
  /\ Emit(p, IF ret[p].ok THEN <<>> ELSE <<Ev("err", Display(ret[p].diag))>>)
  /\ exit_code' = [exit_code EXCEPT ![p] = IF ret[p].ok THEN "SUCCESS" ELSE "FAILURE"]
  /\ pc' = [pc EXCEPT ![p] = "exited"]
  /\ UNCHANGED <<optVars, warnVars, cli, source, file, diagnostics_cfg, compile_res, output, ret>>

Step(p) ==
  \/ ResolveCfg(p) \/ CheckForStrict(p) \/ LoadBookOk(p) \/ LoadBookErr(p)
  \/ CheckBookErr(p) \/ CheckBookOk(p)
  \/ CompileBookErr(p) \/ CompileBookOk(p) \/ PrintHvm(p)
  \/ WriteArtifactOk(p) \/ WriteArtifactErr(p)
  \/ SpawnToolOk(p) \/ SpawnToolErr(p) \/ ToolReturns(p)
  \/ RemoveArtifactOk(p) \/ RemoveArtifactErr(p) \/ PrintToolOutput(p)
  \/ DesugarBookErr(p) \/ DesugarBookOk(p)
  \/ RunBookErr(p) \/ RunBookSpawnErr(p) \/ RunBookNone(p) \/ RunBookSome(p)
  \/ MainExit(p)

Next == Step(1)

Spec == Init /\ [][Next]_vars

(***************************************************************************)
(* Claims about the OptionSet resolver                                     *)
(***************************************************************************)
\* The fields that have both an enabling and a disabling flag.
ToggleFields ==
  {"eta", "prune", "float_combinators", "merge", "inline", "check_net_size",
   "linearize_matches"}

EnableFlag(f) ==
  CASE f = "eta" -> "Eta" [] f = "prune" -> "Prune"
    [] f = "float_combinators" -> "FloatCombinators" [] f = "merge" -> "Merge"
    [] f = "inline" -> "Inline" [] f = "check_net_size" -> "CheckNetSize"
    [] f = "linearize_matches" -> "LinearizeMatches"

DisableFlag(f) ==
  CASE f = "eta" -> "NoEta" [] f = "prune" -> "NoPrune"
    [] f = "float_combinators" -> "NoFloatCombinators" [] f = "merge" -> "NoMerge"
    [] f = "inline" -> "NoInline" [] f = "check_net_size" -> "NoCheckNetSize"
    [] f = "linearize_matches" -> "NoLinearizeMatches"

FieldEnabled(o, f) ==
  IF f = "linearize_matches" THEN o[f] = "Enabled" ELSE o[f] = TRUE

FieldDisabled(o, f) ==
  IF f = "linearize_matches" THEN o[f] = "Disabled" ELSE o[f] = FALSE

RECURSIVE Tokens(_)
Tokens(w) ==
  IF w = <<>> THEN <<>>
  ELSE [i \in 1..Len(Head(w).vals) |->
          [flag |-> Head(w).flag, val |-> Head(w).vals[i]]]
         \o Tokens(Tail(w))

FlagSeverity(f) ==
  CASE f = "warns" -> "Warning" [] f = "denies" -> "Error" [] f = "allows" -> "Allow"

CategoryOf(val) ==
  CASE val = "IrrefutableMatch" -> "irrefutable_match"
    [] val = "RedundantMatch"   -> "redundant_match"
    [] val = "UnreachableMatch" -> "unreachable_match"
    [] val = "UnusedDefinition" -> "unused_definition"
    [] val = "RepeatedBind"     -> "repeated_bind"
    [] val = "RecursionCycle"   -> "recursion_cycle"
    [] val = "All"              -> "all"

\* A token names category c when it gives c itself or the synthetic All.
Names(tok, c) == tok.val = "All" \/ CategoryOf(tok.val) = c

LastNaming(toks, c) ==
  CHOOSE i \in 1..Len(toks) :
    /\ Names(toks[i], c)
    /\ \A j \in (i + 1)..Len(toks) : ~Names(toks[j], c)

\* C2: every category that a token names resolves to the severity of the
\* last token, in command order, that names it, whatever the groups of the
\* tokens before it.
C2_LastTokenWins ==
  warnPc = "done" =>
    LET toks == Tokens(warn_cli) IN
    \A c \in Categories :
      (\E i \in 1..Len(toks) : Names(toks[i], c)) =>
        cfg[c] = FlagSeverity(toks[LastNaming(toks, c)].flag)

\* C3: when the command line ends with an All token followed by a token for
\* one category, that category has the later token's severity and the other
\* five have the severity of All; when it ends with an All token, all six
\* categories have its severity.
C3_AllThenSpecific ==
  warnPc = "done" =>
    LET toks == Tokens(warn_cli)
        n == Len(toks) IN
    /\ (n >= 1 /\ toks[n].val = "All") =>
         \A c \in Categories : cfg[c] = FlagSeverity(toks[n].flag)
    /\ (n >= 2 /\ toks[n - 1].val = "All" /\ toks[n].val # "All") =>
         \A c \in Categories :
           cfg[c] = IF c = CategoryOf(toks[n].val)
                    THEN FlagSeverity(toks[n].flag)
                    ELSE FlagSeverity(toks[n - 1].flag)

\* Every flag occurrence of the command line carries a single category.
SingleValued == \A i \in 1..Len(warn_cli) : Len(warn_cli[i].vals) = 1

LastTokenWinsIfSingleValued == SingleValued => C2_LastTokenWins
AllThenSpecificIfSingleValued == SingleValued => C3_AllThenSpecific

(***************************************************************************)
(* Two invocations of GenC / GenCu in one working directory                *)
(***************************************************************************)
\* Both processes run the GenC | GenCu arm on sources that load and compile
\* without findings; they share the file ".out.hvm" and nothing else.
InitConc ==
  /\ cli \in [Invocations -> {c \in CliSet : /\ c.mode \in GenToolModes
                                              /\ ~c.verbose
                                              /\ c.warn_opts = <<>>}]
  /\ source = [p \in Invocations |-> [loads |-> TRUE, findings |-> {}]]
  /\ file \in {FileAbsent, FileOf(0)}
  /\ pc = [p \in Invocations |-> "start"]
  /\ diagnostics_cfg = [p \in Invocations |-> DiagnosticsConfig_new("Allow", FALSE)]
  /\ compile_res = [p \in Invocations |-> NoDiag]
  /\ output = [p \in Invocations |-> -1]
  /\ log = [p \in Invocations |-> <<>>]
  /\ ret = [p \in Invocations |-> ResultOk]
  /\ exit_code = [p \in Invocations |-> "none"]
  /\ OptsIdle
  /\ WarnIdle

\* The statements of the GenC | GenCu arm that such an invocation executes;
\* the scheduler interleaves the two processes at every file and process
\* operation.
GenToolStep(p) ==
  \/ ResolveCfg(p) \/ LoadBookOk(p) \/ CompileBookOk(p)
  \/ WriteArtifactOk(p) \/ WriteArtifactErr(p)
  \/ SpawnToolOk(p) \/ SpawnToolErr(p) \/ ToolReturns(p)
  \/ RemoveArtifactOk(p) \/ RemoveArtifactErr(p) \/ PrintToolOutput(p)
  \/ MainExit(p)

NextConc == GenToolStep(1) \/ GenToolStep(2)

SpecConc == InitConc /\ [][NextConc]_vars

(***************************************************************************)
(* Claims about the invocation                                             *)
(***************************************************************************)
HasPart(e, part) == \E k \in 1..Len(e.text) : e.text[k] = part

HasKind(e, kind) == \E k \in 1..Len(e.text) : e.text[k][1] = kind

Logged(p, ch, part) ==
  \E i \in 1..Len(log[p]) : log[p][i].ch = ch /\ HasPart(log[p][i], part)

\* Index of the first event on channel ch that has the part, 0 when none.
FirstIdx(p, ch, part) ==
  IF Logged(p, ch, part)
  THEN CHOOSE i \in 1..Len(log[p]) :
         /\ log[p][i].ch = ch /\ HasPart(log[p][i], part)
         /\ \A j \in 1..(i - 1) : ~(log[p][j].ch = ch /\ HasPart(log[p][j], part))
  ELSE 0

\* Some text, if only a newline, went to the channel.
WroteTo(p, ch) == \E i \in 1..Len(log[p]) : log[p][i].ch = ch /\ log[p][i].text # <<>>

\* The event prints captured output of the external tool or its status line.
IsToolOutput(e) ==
  HasPart(e, Lit("tool stdout")) \/ HasPart(e, Lit("tool stderr")) \/ HasKind(e, "status")

\* The event prints a result value of a Run mode.
IsResultValue(e) == e.ch = "out" /\ HasKind(e, "term")

\* The event prints part of the result payload of Desugar, GenHvm or Run*.
IsPayload(e) ==
  /\ e.ch = "out"
  /\ \/ HasKind(e, "term") \/ HasKind(e, "stats")
     \/ HasPart(e, Lit("hvm_book"))
     \/ HasPart(e, Lit("desugared book")) \/ HasPart(e, Lit("desugared book, pretty"))

ErrorFindings(p) == {c \in source[p].findings : diagnostics_cfg[p][c] = "Error"}

\* C4: Check mode without verbose, on a source that loads and has no finding,
\* ends in success with nothing written to the error channel or to stdout.
C4_CheckCleanIsSilent ==
  (/\ pc[1] = "exited" /\ cli[1].mode = "Check" /\ ~cli[1].verbose
   /\ source[1].loads /\ source[1].findings = {})
  => /\ exit_code[1] = "SUCCESS"
     /\ ~WroteTo(1, "err")
     /\ ~WroteTo(1, "out")

\* C5: with exactly one finding at severity Error, Check and every Run mode
\* end in failure, the finding is in the text written to the error channel,
\* and no result value is written to stdout.
C5_ErrorFindingFails ==
  (/\ pc[1] = "exited" /\ cli[1].mode \in {"Check"} \cup RunModes
   /\ source[1].loads /\ Cardinality(ErrorFindings(1)) = 1)
  => /\ exit_code[1] = "FAILURE"
     /\ \A c \in ErrorFindings(1) : Logged(1, "err", <<"finding", c>>)
     /\ \A i \in 1..Len(log[1]) : ~IsResultValue(log[1][i])

C5_Witness ==
  /\ pc[1] = "exited" /\ cli[1].mode = "RunC"
  /\ source[1].findings = {"unused_definition"}
  /\ diagnostics_cfg[1].unused_definition = "Error"
  /\ exit_code[1] = "FAILURE"

\* C6: in GenC/GenCu, when the tool fails to spawn after the artifact was
\* written, the artifact does not exist when the invocation completes.
C6_CleanupAfterSpawnFailure ==
  (/\ pc[1] = "exited" /\ cli[1].mode \in GenToolModes
   /\ Logged(1, "fs", <<"write", "ok">>) /\ Logged(1, "proc", <<"spawn", "err">>))
  => ~file.exists

\* C7: in GenC/GenCu, when the tool is spawned and returns (any status), the
\* artifact was written before the spawn, is this invocation's artifact while
\* the tool runs, removal is attempted after the tool returned and before the
\* invocation completes, and after a successful removal the artifact does not
\* exist at completion.
C7_ArtifactLifetime ==
  cli[1].mode \in GenToolModes =>
    LET w == FirstIdx(1, "fs", <<"write", "ok">>)
        sp == FirstIdx(1, "proc", <<"spawn", "ok">>)
        x == IF Logged(1, "proc", <<"exit", "zero">>)
             THEN FirstIdx(1, "proc", <<"exit", "zero">>)
             ELSE FirstIdx(1, "proc", <<"exit", "nonzero">>)
        r == IF Logged(1, "fs", <<"remove", "ok">>)
             THEN FirstIdx(1, "fs", <<"remove", "ok">>)
             ELSE FirstIdx(1, "fs", <<"remove", "err">>)
    IN  /\ pc[1] = "tool_running" => file = FileOf(1)
        /\ sp > 0 => (w > 0 /\ w < sp)
        /\ x > 0 => (sp > 0 /\ sp < x)
        /\ r > 0 => (x > 0 /\ x < r)
        /\ (pc[1] = "exited" /\ x > 0) => r > 0
        /\ (pc[1] = "exited" /\ Logged(1, "fs", <<"remove", "ok">>)) => ~file.exists

C7_Witness ==
  /\ pc[1] = "exited" /\ cli[1].mode = "GenC"
  /\ Logged(1, "proc", <<"exit", "nonzero">>)
  /\ Logged(1, "fs", <<"remove", "ok">>)
  /\ ~file.exists

\* C8: in the modes that invoke the external tool (GenC, GenCu, Run*), a
\* spawn failure ends the invocation in failure, the text written to the
\* error channel contains the system error, and neither captured tool output
\* nor a result is printed.
C8_SpawnFailureIsFatal ==
  (/\ pc[1] = "exited" /\ cli[1].mode \in GenToolModes \cup RunModes
   /\ Logged(1, "proc", <<"spawn", "err">>))
  => /\ exit_code[1] = "FAILURE"
     /\ Logged(1, "err", OsError("spawn"))
     /\ \A i \in 1..Len(log[1]) :
          ~IsToolOutput(log[1][i]) /\ ~IsResultValue(log[1][i])

C8_Witness ==
  /\ pc[1] = "exited" /\ cli[1].mode = "GenCu"
  /\ Logged(1, "proc", <<"spawn", "err">>)
  /\ exit_code[1] = "FAILURE"

\* C9: in GenC/GenCu, when the tool was spawned and exited, the outcome is
\* success; the status line, the last line written to stdout, holds the status
\* text when the status is non-zero and is empty when it is zero.
C9_ToolStatusPassThrough ==
  (/\ pc[1] = "exited" /\ cli[1].mode \in GenToolModes /\ output[1] # -1)
  => LET outs == SelectSeq(log[1], LAMBDA e : e.ch = "out")
         line == outs[Len(outs)].text
     IN  /\ exit_code[1] = "SUCCESS"
         /\ Len(outs) > 0
         /\ output[1] # 0 => (Len(line) = 2 /\ line[1][1] = "status" /\ line[2] = Nl)
         /\ output[1] = 0 => line = <<Nl>>

C9_Witness ==
  /\ pc[1] = "exited" /\ cli[1].mode = "GenC"
  /\ output[1] = 1
  /\ exit_code[1] = "SUCCESS"
  /\ Logged(1, "out", <<"status", "exit status: 1">>)

\* C10: in Desugar, GenHvm and the Run modes, whenever a part of the result
\* payload is written to stdout, the diagnostics were written to the error
\* channel before it and nothing is written to the error channel after it.
C10_DiagnosticsBeforePayload ==
  cli[1].mode \in {"Desugar", "GenHvm"} \cup RunModes =>
    \A i \in 1..Len(log[1]) :
      IsPayload(log[1][i]) =>
        /\ \E j \in 1..(i - 1) : log[1][j].ch = "err"
        /\ \A j \in 1..Len(log[1]) : log[1][j].ch = "err" => j < i

C10_Witness ==
  /\ pc[1] = "exited" /\ cli[1].mode = "Desugar"
  /\ Logged(1, "err", <<"finding", "repeated_bind">>)
  /\ Logged(1, "out", Lit("desugared book"))
  /\ FirstIdx(1, "err", <<"finding", "repeated_bind">>)
       < FirstIdx(1, "out", Lit("desugared book"))

\* Index of the last event on channel ch, 0 when none.
LastIdx(p, ch) ==
  IF \E i \in 1..Len(log[p]) : log[p][i].ch = ch
  THEN CHOOSE i \in 1..Len(log[p]) :
         /\ log[p][i].ch = ch
         /\ \A j \in (i + 1)..Len(log[p]) : log[p][j].ch # ch
  ELSE 0

\* Index of the event by which the tool returned, 0 before that.
ToolExitIdx(p) ==
  IF Logged(p, "proc", <<"exit", "zero">>)
  THEN FirstIdx(p, "proc", <<"exit", "zero">>)
  ELSE FirstIdx(p, "proc", <<"exit", "nonzero">>)

\* C11 as claimed: in GenC/GenCu, after the tool returned, its captured
\* stdout is emitted first, then its captured stderr, then the status line.
C11_StdoutThenStderrThenStatus ==
  (/\ pc[1] = "exited" /\ cli[1].mode \in GenToolModes /\ output[1] # -1)
  => LET o == FirstIdx(1, "out", Lit("tool stdout"))
         e == FirstIdx(1, "err", Lit("tool stderr"))
     IN  /\ ToolExitIdx(1) < o
         /\ o < e
         /\ e < LastIdx(1, "out")

\* C11 amended: in GenC/GenCu, after the tool returned, its captured stderr
\* is emitted first (to the error channel), then its captured stdout, then
\* the status line as the last line of stdout.
C11_StderrThenStdoutThenStatus ==
  (/\ pc[1] = "exited" /\ cli[1].mode \in GenToolModes /\ output[1] # -1)
  => LET o == FirstIdx(1, "out", Lit("tool stdout"))
         e == FirstIdx(1, "err", Lit("tool stderr"))
         st == LastIdx(1, "out")
     IN  /\ ToolExitIdx(1) < e
         /\ e < o
         /\ o < st
         /\ log[1][st].text = StatusText(output[1]) \o <<Nl>>

C11_Witness ==
  /\ pc[1] = "exited" /\ cli[1].mode = "GenCu" /\ output[1] = 0
  /\ Logged(1, "out", Lit("tool stdout"))
  /\ Logged(1, "err", Lit("tool stderr"))
  /\ FirstIdx(1, "err", Lit("tool stderr")) < FirstIdx(1, "out", Lit("tool stdout"))

\* The findings the passes report without failing: the ones the resolved
\* configuration puts at severity Warning.
WarningFindings(p) == {c \in source[p].findings : diagnostics_cfg[p][c] = "Warning"}

\* C12: in every mode, GenC/GenCu included, when the stages before the
\* external tool complete with only Warning findings, the pipeline goes on
\* and those findings are written to the error channel before the invocation
\* completes.  (In the Run modes the driver holds the findings only when
\* run_book hands back a result; in GenC/GenCu the stages are complete when
\* the tool has returned.)
C12_WarningsReachErrorChannel ==
  (/\ pc[1] = "exited"
   /\ source[1].loads
   /\ ErrorFindings(1) = {}
   /\ cli[1].mode \in RunModes => \E i \in 1..Len(log[1]) : IsResultValue(log[1][i])
   /\ cli[1].mode \in GenToolModes => output[1] # -1)
  => /\ exit_code[1] = "SUCCESS"
     /\ \A c \in WarningFindings(1) : Logged(1, "err", <<"finding", c>>)

\* The starting configurations C13 allows an invocation: in the Run modes
\* without verbose every category at Allow, in the other modes a default
\* configuration.  (With verbose the claim leaves the Run modes' start open.)
AllAllow == [c \in Categories |-> "Allow"]

StartsClaimed(c) ==
  IF c.mode \in RunModes
  THEN IF c.verbose THEN [Categories -> Severity] ELSE {AllAllow}
  ELSE {[k \in Categories |-> d[k]] : d \in DiagnosticsConfig_default}

EventsOn(p, ch) == {i \in 1..Len(log[p]) : log[p][i].ch = ch}

\* The book that load_book prints with --verbose.
IsBookDump(e) == e.ch = "out" /\ HasPart(e, Lit("book"))

\* Load or compile of a GenC/GenCu invocation has returned a fatal diagnostic.
GenToolFailedEarly(p) ==
  /\ pc[p] = "exited"
  /\ cli[p].mode \in GenToolModes
  /\ ~source[p].loads \/ ErrorFindings(p) # {}

\* C14 as claimed: in GenC/GenCu, when Load or compile returns a fatal
\* diagnostic, the artifact is never written, the tool is never spawned,
\* nothing is written to stdout, and the invocation fails with exactly one
\* error report on the error channel.
C14_FatalBeforeHandoffNothingOnStdout ==
  GenToolFailedEarly(1)
  => /\ EventsOn(1, "fs") = {} /\ file.owner # 1
     /\ EventsOn(1, "proc") = {}
     /\ EventsOn(1, "out") = {}
     /\ exit_code[1] = "FAILURE"
     /\ Cardinality(EventsOn(1, "err")) = 1
     /\ \A i \in EventsOn(1, "err") : log[1][i].text # <<>>

\* C14 amended: as above, except that with --verbose a book that loaded has
\* been printed to stdout before compile fails; nothing else is written to
\* stdout, and without --verbose or when Load fails nothing at all.
C14_FatalBeforeHandoff ==
  GenToolFailedEarly(1)
  => /\ EventsOn(1, "fs") = {} /\ file.owner # 1
     /\ EventsOn(1, "proc") = {}
     /\ \A i \in EventsOn(1, "out") : IsBookDump(log[1][i])
     /\ (EventsOn(1, "out") # {}) <=> (cli[1].verbose /\ source[1].loads)
     /\ exit_code[1] = "FAILURE"
     /\ Cardinality(EventsOn(1, "err")) = 1
     /\ \A i \in EventsOn(1, "err") : log[1][i].text # <<>>

C14_Witness ==
  /\ GenToolFailedEarly(1) /\ cli[1].mode = "GenC"
  /\ cli[1].verbose /\ source[1].loads
  /\ exit_code[1] = "FAILURE"
  /\ \E i \in EventsOn(1, "out") : IsBookDump(log[1][i])
  /\ \E c \in Categories : Logged(1, "err", <<"finding", c>>)

\* C15: in GenC/GenCu, when removing the artifact fails after the tool
\* returned, the failure is logged to the error channel, the tool's captured
\* output and the status line are still printed after it, and the invocation
\* succeeds.
C15_RemovalFailureIsLogged ==
  (/\ pc[1] = "exited" /\ cli[1].mode \in GenToolModes
   /\ Logged(1, "fs", <<"remove", "err">>))
  => LET r == FirstIdx(1, "err", Lit("Error removing HVM output file. "))
         st == LastIdx(1, "out")
     IN  /\ FirstIdx(1, "fs", <<"remove", "err">>) < r
         /\ HasPart(log[1][r], OsError("remove"))
         /\ r < FirstIdx(1, "err", Lit("tool stderr"))
         /\ r < FirstIdx(1, "out", Lit("tool stdout"))
         /\ r < st
         /\ log[1][st].text = StatusText(output[1]) \o <<Nl>>
         /\ exit_code[1] = "SUCCESS"

C15_Witness ==
  /\ pc[1] = "exited" /\ cli[1].mode = "GenC"
  /\ Logged(1, "fs", <<"remove", "err">>)
  /\ Logged(1, "err", OsError("remove"))
  /\ Logged(1, "out", Lit("tool stdout"))
  /\ output[1] = 1 /\ exit_code[1] = "SUCCESS"

\* C16: Check, Desugar and GenHvm never write the artifact, never remove it
\* and never spawn the tool.
C16_NoHandoffOutsideGenTool ==
  cli[1].mode \in {"Check", "Desugar", "GenHvm"}
  => /\ EventsOn(1, "fs") = {}
     /\ EventsOn(1, "proc") = {}
     /\ file.owner # 1

C16_Witness ==
  /\ pc[1] = "exited" /\ cli[1].mode = "GenHvm" /\ exit_code[1] = "SUCCESS"
  /\ Logged(1, "out", Lit("hvm_book"))
  /\ file.exists /\ file.owner = 0

\* C17: in the Run modes, when run_book gives no normal-form result nothing
\* further is printed (no diagnostics, no value, no stats) and the invocation
\* succeeds; when it gives one, the diagnostics are written, then the value,
\* then the stats if and only if print_stats was asked for.
C17_RunResultOutput ==
  (/\ pc[1] = "exited" /\ cli[1].mode \in RunModes
   /\ Logged(1, "proc", <<"spawn", "ok">>))
  => LET sp == FirstIdx(1, "proc", <<"spawn", "ok">>)
         hasValue == \E i \in 1..Len(log[1]) : IsResultValue(log[1][i])
         v == CHOOSE i \in 1..Len(log[1]) : IsResultValue(log[1][i])
         stats == {i \in EventsOn(1, "out") : HasKind(log[1][i], "stats")}
     IN  /\ exit_code[1] = "SUCCESS"
         /\ ~hasValue => Len(log[1]) = sp
         /\ hasValue =>
              /\ log[1][sp + 1] =
                   Ev("err", Display(Diag(Reported(source[1].findings, diagnostics_cfg[1]), <<>>)))
              /\ v = sp + 2
              /\ (stats # {}) <=> cli[1].print_stats
              /\ stats \subseteq {v + 1}
              /\ Len(log[1]) = v + Cardinality(stats)

C17_Witness ==
  /\ pc[1] = "exited" /\ cli[1].mode = "RunCu" /\ cli[1].print_stats
  /\ exit_code[1] = "SUCCESS"
  /\ WarningFindings(1) # {}
  /\ \E i \in 1..Len(log[1]) : IsResultValue(log[1][i])
  /\ \E i \in EventsOn(1, "out") : HasKind(log[1][i], "stats")

\* Writing the artifact of a GenC/GenCu invocation has failed.
ArtifactWriteFailed(p) ==
  /\ pc[p] = "exited"
  /\ cli[p].mode \in GenToolModes
  /\ Logged(p, "fs", <<"write", "err">>)

\* C19 as claimed: in GenC/GenCu a failure to write the artifact is fatal:
\* the tool is never spawned, no removal is attempted, nothing is written to
\* stdout, and the invocation fails with the write error's text on the error
\* channel.
C19_WriteFailureNothingOnStdout ==
  ArtifactWriteFailed(1)
  => /\ EventsOn(1, "proc") = {}
     /\ ~Logged(1, "fs", <<"remove", "ok">>) /\ ~Logged(1, "fs", <<"remove", "err">>)
     /\ EventsOn(1, "out") = {}
     /\ exit_code[1] = "FAILURE"
     /\ log[1][Len(log[1])] = Ev("err", <<OsError("write")>>)

\* C19 amended: as above, except that with --verbose the loaded book has
\* been printed to stdout before the write; nothing else is written to
\* stdout, and without --verbose nothing at all.
C19_WriteFailureIsFatal ==
  ArtifactWriteFailed(1)
  => /\ EventsOn(1, "proc") = {}
     /\ ~Logged(1, "fs", <<"remove", "ok">>) /\ ~Logged(1, "fs", <<"remove", "err">>)
     /\ \A i \in EventsOn(1, "out") : IsBookDump(log[1][i])
     /\ (EventsOn(1, "out") # {}) <=> cli[1].verbose
     /\ exit_code[1] = "FAILURE"
     /\ log[1][Len(log[1])] = Ev("err", <<OsError("write")>>)
     /\ EventsOn(1, "err") = {Len(log[1])}

C19_Witness ==
  /\ ArtifactWriteFailed(1) /\ cli[1].mode = "GenCu" /\ cli[1].verbose
  /\ exit_code[1] = "FAILURE"
  /\ Logged(1, "err", OsError("write"))
  /\ \E i \in EventsOn(1, "out") : IsBookDump(log[1][i])
  /\ file = FileOf(1)

\* The queue of the flag, as the replay holds it.
QueueOf(f) ==
  CASE f = "allows" -> allows [] f = "warns" -> warns [] f = "denies" -> denies

\* How many of the first n group ids are ids of the flag.
IdsOf(f, n) == Cardinality({i \in 1..n : WarnOptsIds(warn_cli)[i] = f})

\* C20: the replay never pops an empty queue and leaves the three queues
\* empty: for each group there are as many ids as values, and the k-th id of
\* a group is paired with the k-th value given for that group.
C20_ReplayConsumesQueues ==
  /\ (warnPc = "loop" /\ idi <= Len(warn_cli)) =>
       LET f == WarnOptsIds(warn_cli)[idi] IN
       /\ QueueOf(f) # <<>>
       /\ Head(QueueOf(f)) = FlagVals(warn_cli, f)[IdsOf(f, idi)]
  /\ warnPc = "done" =>
       /\ \A f \in WarnFlags : IdsOf(f, Len(warn_cli)) = Len(FlagVals(warn_cli, f))
       /\ allows = <<>> /\ warns = <<>> /\ denies = <<>>

\* C18: two GenC/GenCu invocations share the one artifact location with no
\* locking: an invocation that has written its artifact is never kept from
\* spawning its tool by what the location holds now, so the tool is spawned
\* also while the location holds the other invocation's representation or
\* after the other invocation removed the file.
C18_SpawnNotGuardedByArtifact ==
  \A p \in Invocations :
    (pc[p] = "written" /\ file # FileOf(p)) => ENABLED SpawnToolOk(p)

\* Invocation 1 spawned its tool on the artifact of invocation 2, and
\* invocation 2 spawned its tool after invocation 1 had removed the file.
C18_Witness ==
  /\ Logged(1, "proc", <<"artifact", "inv2">>)
  /\ Logged(2, "proc", <<"artifact", "absent">>)
  /\ Logged(1, "fs", <<"remove", "ok">>)

====
